---------------------------- MODULE Spec2Model ----------------------------
(***************************************************************************)
(* A model of gui.py, the iSnick Downloader: a PyQt5 front end that runs   *)
(* a yt-dlp binary as a QProcess child, confined to a sandbox directory    *)
(* and to the URLs of a selected site, and that follows the child's        *)
(* output to show progress.                                                *)
(*                                                                         *)
(* Python strings are modelled as sequences of one-character strings, so   *)
(* that every test the code makes on text (substring, split, strip, regex  *)
(* prefix, float()) is computed on the characters.  "ESC" stands for the   *)
(* character 0x1B.                                                         *)
(***************************************************************************)
EXTENDS Integers, Sequences, FiniteSets, TLC

(***************************************************************************)
(* str helpers                                                             *)
(***************************************************************************)
\* The absent value of a text: Python's None, a missing key of the config
\* document.  Every text is a sequence of one-character strings, so this
\* sequence is none of them.
None == <<"None">>

\* Characters str.split() and str.strip() treat as whitespace.
WS == {" ", "\t", "\n", "\r"}

\* Characters str.splitlines() breaks a line at.
LineBreaks == {"\n", "\r"}

Digits == {"0", "1", "2", "3", "4", "5", "6", "7", "8", "9"}

SetMin(S) == CHOOSE x \in S : \A y \in S : x <= y

SetMax(S) == CHOOSE x \in S : \A y \in S : x >= y

\* p occurs in s at index i.
OccursAt(s, p, i) ==
    /\ i >= 1
    /\ i + Len(p) - 1 <= Len(s)
    /\ \A k \in 1..Len(p) : s[i + k - 1] = p[k]

\* str.find, 1-based; 0 when p does not occur in s.
Find(s, p) ==
    LET I == {i \in 1..(Len(s) - Len(p) + 1) : OccursAt(s, p, i)}
    IN  IF I = {} THEN 0 ELSE SetMin(I)

\* `p in s`
Contains(s, p) == Find(s, p) # 0

\* s.startswith(p)
StartsWith(s, p) == OccursAt(s, p, 1)

\* s.split(p)[0]: the text before the first p, all of s when p is absent.
Before(s, p) ==
    IF Contains(s, p) THEN SubSeq(s, 1, Find(s, p) - 1) ELSE s

\* s.split(p, 1)[1]: the text after the first p (p occurs in s).
After(s, p) == SubSeq(s, Find(s, p) + Len(p), Len(s))

\* s.strip()
Strip(s) ==
    LET I == {i \in 1..Len(s) : s[i] \notin WS}
    IN  IF I = {} THEN << >> ELSE SubSeq(s, SetMin(I), SetMax(I))

\* s.split(): the maximal runs of non-whitespace characters, in order.
RECURSIVE Split(_)
Split(s) ==
    LET I == {i \in 1..Len(s) : s[i] \notin WS}
    IN  IF I = {} THEN << >>
        ELSE LET b == SetMin(I)
                 J == {j \in b..Len(s) : s[j] \in WS}
                 e == IF J = {} THEN Len(s) ELSE SetMin(J) - 1
             IN  <<SubSeq(s, b, e)>> \o Split(SubSeq(s, e + 1, Len(s)))

\* s.splitlines(): break at \n, \r and \r\n; no empty last line.
RECURSIVE SplitLines(_)
SplitLines(s) ==
    LET J == {j \in 1..Len(s) : s[j] \in LineBreaks}
    IN  IF s = << >> THEN << >>
        ELSE IF J = {} THEN <<s>>
        ELSE LET j == SetMin(J)
                 k == IF s[j] = "\r" /\ j < Len(s) /\ s[j + 1] = "\n"
                      THEN j + 1 ELSE j
             IN  <<SubSeq(s, 1, j - 1)>> \o SplitLines(SubSeq(s, k + 1, Len(s)))

Last(q) == q[Len(q)]

(***************************************************************************)
(* ANSI_ESCAPE = \x1B(?:[@-Z\\-_]|\[[0-?]*[ -/]*[@-~])                     *)
(***************************************************************************)
\* [@-Z\\-_]
FeFinal ==
    { "@", "A", "B", "C", "D", "E", "F", "G", "H", "I", "J", "K", "L", "M",
      "N", "O", "P", "Q", "R", "S", "T", "U", "V", "W", "X", "Y", "Z", "\\",
      "]", "^", "_" }

\* [0-?]
CsiParam ==
    { "0", "1", "2", "3", "4", "5", "6", "7", "8", "9", ":", ";", "<", "=",
      ">", "?" }

\* [ -/]
CsiInter ==
    { " ", "!", "\"", "#", "$", "%", "&", "'", "(", ")", "*", "+", ",", "-",
      ".", "/" }

\* [@-~], but for the grave accent, which a TLA+ string cannot hold.
CsiFinal ==
    { "@", "A", "B", "C", "D", "E", "F", "G", "H", "I", "J", "K", "L", "M",
      "N", "O", "P", "Q", "R", "S", "T", "U", "V", "W", "X", "Y", "Z", "[",
      "\\", "]", "^", "_", "a", "b", "c", "d", "e", "f", "g", "h", "i",
      "j", "k", "l", "m", "n", "o", "p", "q", "r", "s", "t", "u", "v", "w",
      "x", "y", "z", "{", "|", "}", "~" }

\* The first index from i on whose character is not in class C (Len(s)+1 if none).
SkipClass(s, i, C) ==
    LET J == {j \in i..Len(s) : s[j] \notin C}
    IN  IF J = {} THEN Len(s) + 1 ELSE SetMin(J)

\* The length of the escape sequence that starts at s[i] = ESC, 0 when the
\* pattern does not match there.  The three classes of the CSI branch are
\* disjoint, so the greedy match is the only one.
EscapeLen(s, i) ==
    IF i + 1 > Len(s) THEN 0
    ELSE IF s[i + 1] \in FeFinal THEN 2
    ELSE IF s[i + 1] = "["
         THEN LET f == SkipClass(s, SkipClass(s, i + 2, CsiParam), CsiInter)
              IN  IF f <= Len(s) /\ s[f] \in CsiFinal THEN f - i + 1 ELSE 0
    ELSE 0

\* ANSI_ESCAPE.sub("", s)
RECURSIVE StripAnsi(_)
StripAnsi(s) ==
    LET E == {i \in 1..Len(s) : s[i] = "ESC" /\ EscapeLen(s, i) > 0}
    IN  IF E = {} THEN s
        ELSE LET i == SetMin(E)
             IN  SubSeq(s, 1, i - 1)
                   \o StripAnsi(SubSeq(s, i + EscapeLen(s, i), Len(s)))

(***************************************************************************)
(* float() and int() on the percent token                                  *)
(***************************************************************************)
\* str.lower() on the letters float() reads case-insensitively.
LowerChar(c) ==
    CASE c = "N" -> "n" [] c = "A" -> "a" [] c = "I" -> "i" [] c = "F" -> "f"
      [] c = "T" -> "t" [] c = "Y" -> "y" [] OTHER -> c

Lower(s) == [i \in 1..Len(s) |-> LowerChar(s[i])]

DigitVal(c) ==
    CASE c = "0" -> 0 [] c = "1" -> 1 [] c = "2" -> 2 [] c = "3" -> 3
      [] c = "4" -> 4 [] c = "5" -> 5 [] c = "6" -> 6 [] c = "7" -> 7
      [] c = "8" -> 8 [] c = "9" -> 9

\* The value of a string of decimal digits.
RECURSIVE DecVal(_)
DecVal(d) ==
    IF d = << >> THEN 0
    ELSE 10 * DecVal(SubSeq(d, 1, Len(d) - 1)) + DigitVal(d[Len(d)])

AllDigits(d) == \A i \in 1..Len(d) : d[i] \in Digits

\* float(tok) followed by int().  kind err is the ValueError of float, nan and
\* inf are the two values int refuses, num is a finite value whose integer
\* part (truncated toward zero) is trunc.  The literals read are
\* [+-]digits[.digits], [+-].digits, nan, inf and infinity; exponents and
\* digit-group underscores are outside the alphabet of the modelled output.
ParseFloat(tok) ==
    LET signed == tok # << >> /\ tok[1] \in {"+", "-"}
        neg    == signed /\ tok[1] = "-"
        body   == IF signed THEN SubSeq(tok, 2, Len(tok)) ELSE tok
        low    == Lower(body)
        dot    == Find(body, <<".">>)
        ip     == IF dot = 0 THEN body ELSE SubSeq(body, 1, dot - 1)
        fp     == IF dot = 0 THEN << >> ELSE SubSeq(body, dot + 1, Len(body))
        isNum  == /\ AllDigits(ip)
                  /\ AllDigits(fp)
                  /\ Len(ip) + Len(fp) > 0
    IN  IF low = <<"n", "a", "n">> THEN [kind |-> "nan", trunc |-> 0]
        ELSE IF low \in {<<"i", "n", "f">>, <<"i", "n", "f", "i", "n", "i", "t", "y">>} THEN [kind |-> "inf", trunc |-> 0]
        ELSE IF isNum
             THEN [kind |-> "num",
                   trunc |-> IF neg THEN 0 - DecVal(ip) ELSE DecVal(ip)]
        ELSE [kind |-> "err", trunc |-> 0]

(***************************************************************************)
(* handle_output: the interpreter of the child's output                    *)
(***************************************************************************)
DownloadTag == <<"[", "d", "o", "w", "n", "l", "o", "a", "d", "]">>

DestinationMark == <<"D", "e", "s", "t", "i", "n", "a", "t", "i", "o", "n">>

PercentMark == <<"%">>

AtMark == <<"a", "t">>

AlreadyMark == <<"h", "a", "s", " ", "a", "l", "r", "e", "a", "d", "y", " ", "b", "e", "e", "n", " ", "d", "o", "w", "n", "l", "o", "a", "d", "e", "d">>

\* The text of speed_label after "Speed: " when no speed is shown.
NoSpeed == <<"-">>

\* The texts of status_label.
StIdle == "Status: Idle"

StRetrieving == "Status: Retrieving video information..."

StBeginning == "Status: Beginning download..."

StInProgress == "Status: In progress..."

StAlready == "Status: Complete (already downloaded)"

StComplete == "Status: Complete"

StCancelled == "Status: Cancelled"

NoException == "none"

\* QProgressBar's default range; setValue outside of it leaves the value as it is.
ProgressMin == 0

ProgressMax == 100

SetValue_Unchecked(cur, v) == v

SetValue(cur, v) == IF v >= ProgressMin /\ v <= ProgressMax THEN v ELSE cur

\* The body of the loop over the lines, on ps = [progress, status, speed, raised];
\* raised names the exception that leaves the handler.
HandleLine(ps, line) ==
    IF Contains(line, DownloadTag)
    THEN IF Contains(line, DestinationMark)
         THEN [ps EXCEPT !.status = StBeginning]
         ELSE IF Contains(line, PercentMark)
         THEN LET p1   == [ps EXCEPT !.status = StInProgress]
                  toks == Split(Before(line, PercentMark))
                  f    == ParseFloat(Last(toks))
                  \* ValueError (float() of the token, int() of nan) is passed over
                  p2   == IF f.kind = "num"
                          THEN [p1 EXCEPT !.progress = SetValue(@, f.trunc)]
                          ELSE p1
                  sp   == Split(Strip(After(line, AtMark)))
              IN  IF toks = << >> THEN [p1 EXCEPT !.raised = "IndexError"]
                  ELSE IF f.kind = "inf" THEN [p1 EXCEPT !.raised = "OverflowError"]
                  ELSE IF Contains(line, AtMark) /\ sp # << >>
                       THEN [p2 EXCEPT !.speed = sp[1]]
                  ELSE p2
         ELSE ps
    ELSE IF Contains(line, AlreadyMark)
         THEN [ps EXCEPT !.progress = SetValue(@, 100),
                         !.status = StAlready,
                         !.speed = NoSpeed]
    ELSE ps

\* The loop: the lines in order, left at the first exception.
RECURSIVE HandleLines(_, _)
HandleLines(ps, lines) ==
    IF lines = << >> \/ ps.raised # NoException THEN ps
    ELSE HandleLines(HandleLine(ps, Head(lines)), Tail(lines))

\* handle_output on what the two channels hold: stdout's text, then stderr's.
HandleText(ps, out, err) == HandleLines(ps, SplitLines(StripAnsi(out \o err)))

(***************************************************************************)
(* Paths and the file system                                               *)
(***************************************************************************)
Sep == "/"

\* s.split("/"): the texts between the separators, empty ones included.
RECURSIVE SplitSep(_)
SplitSep(s) ==
    LET i == Find(s, <<Sep>>)
    IN  IF i = 0 THEN <<s>>
        ELSE <<SubSeq(s, 1, i - 1)>> \o SplitSep(SubSeq(s, i + 1, Len(s)))

\* "/" followed by the components joined by "/".
RECURSIVE JoinAbs(_)
JoinAbs(comps) ==
    IF comps = << >> THEN <<Sep>>
    ELSE IF Len(comps) = 1 THEN <<Sep>> \o comps[1]
    ELSE JoinAbs(SubSeq(comps, 1, Len(comps) - 1)) \o <<Sep>> \o Last(comps)

IsAbs(p) == StartsWith(p, <<Sep>>)

\* os.path.basename
Basename(p) == Last(SplitSep(p))

\* The user's home directory and the directory the program is started in.
Home == <<"/", "h", "o", "m", "e", "/", "u">>

Cwd == <<"/", "h", "o", "m", "e", "/", "u", "/", "a", "p", "p">>

(***************************************************************************)
(* The file system the program runs on, but for the sandbox directory it   *)
(* creates: each entry is a regular file, a directory or a symbolic link;  *)
(* xusr is the owner-execute bit, own tells whether the user owns it.      *)
(* No chain of links comes back to itself.                                 *)
(***************************************************************************)
File(x) == [kind |-> "file", xusr |-> x, own |-> TRUE, target |-> << >>]

Dir(o) == [kind |-> "dir", xusr |-> TRUE, own |-> o, target |-> << >>]

Link(t) == [kind |-> "link", xusr |-> TRUE, own |-> TRUE, target |-> t]

P_ytdlp == <<"/", "u", "s", "r", "/", "b", "i", "n", "/", "y", "t", "-", "d", "l", "p">>

P_ffmpeg == <<"/", "u", "s", "r", "/", "b", "i", "n", "/", "f", "f", "m", "p", "e", "g">>

P_noexec == <<"/", "h", "o", "m", "e", "/", "u", "/", "y", "t", "-", "d", "l", "p", "_", "l", "i", "n", "u", "x">>

P_dirnamed == <<"/", "o", "p", "t", "/", "y", "t", "-", "d", "l", "p">>

P_linknamed == <<"/", "h", "o", "m", "e", "/", "u", "/", "b", "i", "n", "/", "y", "t", "-", "d", "l", "p", "-", "s", "h">>

FS ==
    (<<"/", "u", "s", "r">>            :> Dir(FALSE)) @@
    (<<"/", "u", "s", "r", "/", "b", "i", "n">>        :> Dir(FALSE)) @@
    (P_ytdlp             :> File(TRUE)) @@
    (P_ffmpeg            :> File(TRUE)) @@
    (<<"/", "b", "i", "n">>            :> Dir(FALSE)) @@
    (<<"/", "b", "i", "n", "/", "s", "h">>         :> File(TRUE)) @@
    (<<"/", "o", "p", "t">>            :> Dir(FALSE)) @@
    (P_dirnamed          :> Dir(FALSE)) @@
    (<<"/", "h", "o", "m", "e">>           :> Dir(FALSE)) @@
    (Home                :> Dir(TRUE)) @@
    (Cwd                 :> Dir(TRUE)) @@
    (P_noexec            :> File(FALSE)) @@
    (<<"/", "h", "o", "m", "e", "/", "u", "/", "b", "i", "n">>     :> Dir(TRUE)) @@
    (P_linknamed         :> Link(<<"/", "b", "i", "n", "/", "s", "h">>)) @@
    (<<"/", "h", "o", "m", "e", "/", "u", "/", "V", "i", "d", "e", "o", "s">>  :> Dir(TRUE)) @@
    (<<"/", "h", "o", "m", "e", "/", "u", "/", "d", "l">>      :> Link(<<"/", "m", "n", "t", "/", "m", "e", "d", "i", "a">>)) @@
    (<<"/", "m", "n", "t">>            :> Dir(FALSE)) @@
    (<<"/", "m", "n", "t", "/", "m", "e", "d", "i", "a">>      :> Dir(TRUE)) @@
    (<<"/", "h", "o", "m", "e", "/", "u", "/", "u", "p">>      :> Link(<<".", ".">>))

\* os.lstat: the entry at a path, links not followed.
Exists(p) == p \in DOMAIN FS

\* The entry at the canonical path p is a symbolic link.
LinkAt(p) == Exists(p) /\ FS[p].kind = "link"

\* os.path.expanduser: a leading ~ alone stands for the home directory; the
\* ~name of another user is left as it is (no such user exists).
ExpandUser(p) ==
    IF StartsWith(p, <<"~">>) /\ SplitSep(p)[1] = <<"~">>
    THEN Home \o SubSeq(p, 2, Len(p))
    ELSE p

\* posixpath._joinrealpath on components: path is the resolved prefix (a list
\* of names below the root), rest the names still to walk.
RECURSIVE JoinRealPath(_, _)
JoinRealPath(path, rest) ==
    IF rest = << >> THEN path
    ELSE LET name == Head(rest)
             more == Tail(rest)
             new  == path \o <<name>>
         IN  IF name = << >> \/ name = <<".">> THEN JoinRealPath(path, more)
             ELSE IF name = <<".", ".">>
                  THEN JoinRealPath(IF path = << >> THEN path
                                    ELSE SubSeq(path, 1, Len(path) - 1), more)
             ELSE IF LinkAt(JoinAbs(new))
                  THEN LET t == FS[JoinAbs(new)].target
                       IN  JoinRealPath(
                             JoinRealPath(IF IsAbs(t) THEN << >> ELSE path,
                                          SplitSep(t)),
                             more)
             ELSE JoinRealPath(new, more)

\* os.path.realpath: a relative path is taken from the working directory.
RealPath(p) ==
    JoinAbs(JoinRealPath(<< >>, SplitSep(IF IsAbs(p) THEN p ELSE Cwd \o <<Sep>> \o p)))

\* os.path.islink: lstat of the path, which follows the links of every name
\* but the last.
IsLink(p) ==
    LET a     == IF IsAbs(p) THEN p ELSE Cwd \o <<Sep>> \o p
        names == SplitSep(a)
        last  == Last(names)
        dir   == JoinRealPath(<< >>, SubSeq(names, 1, Len(names) - 1))
    IN  /\ last \notin {<< >>, <<".">>, <<".", ".">>}
        /\ LinkAt(JoinAbs(dir \o <<last>>))

\* YTDLP_GUI.real
Real(p) == RealPath(ExpandUser(p))

\* The names of a path as os.path.commonpath reads them: empty names and "."
\* dropped.
Names(p) == SelectSeq(SplitSep(p), LAMBDA c : c # << >> /\ c # <<".">>)

\* os.path.commonpath of two absolute paths.
CommonPath(a, b) ==
    LET na == Names(a)
        nb == Names(b)
        D  == {i \in 1..Len(na) : i > Len(nb) \/ na[i] # nb[i]}
        n  == IF D = {} THEN Len(na) ELSE SetMin(D) - 1
    IN  JoinAbs(SubSeq(na, 1, n))

\* os.path.isfile: a regular file, links followed (a path that ends in a
\* separator names no file; the candidates read here hold no .. names).
IsFile(p) ==
    /\ p # << >>
    /\ Last(p) # Sep
    /\ Exists(RealPath(p))
    /\ FS[RealPath(p)].kind = "file"

\* os.stat(path).st_mode & stat.S_IXUSR, links followed.
OwnerExec(p) == FS[RealPath(p)].xusr

BinaryPrefix == <<"y", "t", "-", "d", "l", "p">>

ValidateBinary_NoExecBit(path) ==
    IF ~IsFile(path) THEN FALSE
    ELSE StartsWith(Basename(path), BinaryPrefix)

\* YTDLP_GUI.validate_binary
ValidateBinary(path) ==
    IF ~IsFile(path) THEN FALSE
    ELSE IF ~OwnerExec(path) THEN FALSE
    ELSE StartsWith(Basename(path), BinaryPrefix)

EnsureInsideSandbox_Prefix(sandbox_dir_, target_path) ==
    StartsWith(Real(target_path), Real(sandbox_dir_))

\* YTDLP_GUI.ensure_inside_sandbox
EnsureInsideSandbox(sandbox_dir_, target_path) ==
    LET sandbox == Real(sandbox_dir_)
        target  == Real(target_path)
    IN  CommonPath(sandbox, target) = sandbox

(***************************************************************************)
(* URL_REGEX and ALLOWED_SITES                                             *)
(***************************************************************************)
\* https?://
Schemes == {<<"h", "t", "t", "p", ":", "/", "/">>, <<"h", "t", "t", "p", "s", ":", "/", "/">>}

Www == <<"w", "w", "w", ".">>

\* https?://(?:www\.)?<host>/.*  (www) and  https?://<host>/.*  (no www)
Pattern(www, host) == [www |-> www, host |-> host]

S_Bluesky == <<"B", "l", "u", "e", "s", "k", "y">>

S_Facebook == <<"F", "a", "c", "e", "b", "o", "o", "k">>

S_Instagram == <<"I", "n", "s", "t", "a", "g", "r", "a", "m">>

S_TikTok == <<"T", "i", "k", "T", "o", "k">>

S_YouTube == <<"Y", "o", "u", "T", "u", "b", "e">>

\* The value of selected_site that stands for the unlisted mode.
Unlisted == <<"A", "l", "l", "o", "w", " ", "U", "n", "l", "i", "s", "t", "e", "d">>

ALLOWED_SITES ==
    (S_Bluesky   :> {Pattern(TRUE, <<"b", "s", "k", "y", ".", "a", "p", "p">>)}) @@
    (S_Facebook  :> {Pattern(TRUE, <<"f", "a", "c", "e", "b", "o", "o", "k", ".", "c", "o", "m">>)}) @@
    (S_Instagram :> {Pattern(TRUE, <<"i", "n", "s", "t", "a", "g", "r", "a", "m", ".", "c", "o", "m">>)}) @@
    (S_TikTok    :> {Pattern(TRUE, <<"t", "i", "k", "t", "o", "k", ".", "c", "o", "m">>)}) @@
    (S_YouTube   :> {Pattern(TRUE, <<"y", "o", "u", "t", "u", "b", "e", ".", "c", "o", "m">>),
                     Pattern(FALSE, <<"y", "o", "u", "t", "u", ".", "b", "e">>),
                     Pattern(TRUE, <<"m", "u", "s", "i", "c", ".", "y", "o", "u", "t", "u", "b", "e", ".", "c", "o", "m">>)})

\* re.match(p, url): the pattern matches at the start of url; what follows
\* the host's "/" is matched by .*, which also matches nothing.
ReMatch(p, url) ==
    \E sch \in Schemes :
      \E w \in (IF p.www THEN {<< >>, Www} ELSE {<< >>}) :
        StartsWith(url, sch \o w \o p.host \o <<Sep>>)

\* URL_REGEX.match(url): ^https?://[^\s]+$, where $ also matches before a
\* newline that ends the text.
UrlRegexMatch(url) ==
    \E sch \in Schemes :
      /\ StartsWith(url, sch)
      /\ LET rest == SubSeq(url, Len(sch) + 1, Len(url))
             body == IF rest # << >> /\ Last(rest) = "\n"
                     THEN SubSeq(rest, 1, Len(rest) - 1) ELSE rest
         IN  /\ body # << >>
             /\ \A i \in 1..Len(body) : body[i] \notin WS

\* ALLOWED_SITES.get(site, [])
ValidPatterns(site) ==
    IF site \in DOMAIN ALLOWED_SITES THEN ALLOWED_SITES[site] ELSE {}

(***************************************************************************)
(* config.json                                                             *)
(***************************************************************************)
\* No file at CONFIG_FILE.
Absent == [absent |-> TRUE]

\* The document with the three keys; a key that is missing holds None.
Doc(b, sb, site) == [binary |-> b, sandbox_dir |-> sb, selected_site |-> site]

\* `x or None`, `x or default`: None and the empty string are false.
Falsy(x) == x = None \/ x = << >>

\* A config.json that cannot be opened, one that is not JSON, and one whose
\* JSON value is not an object (a list, a string, a number, null).
Unreadable == [broken |-> "unreadable"]

NotJson == [broken |-> "not JSON"]

NotObject == [broken |-> "not an object"]

\* A JSON number and a JSON list as the value of a key.
JsonNumber == <<"123">>

JsonList == <<"[x]">>

\* load_config: binary_from_config, sandbox_dir, selected_site and config.
\* An exception of open or json.load is logged before self.config is assigned;
\* a value that is not an object is assigned to it before its get raises.
LoadConfig(cf) ==
    IF cf \in {Absent, Unreadable, NotJson}
    THEN [binary_from_config |-> None, sandbox_dir |-> None,
          selected_site |-> S_YouTube, config |-> Doc(None, None, None)]
    ELSE IF cf = NotObject
    THEN [binary_from_config |-> None, sandbox_dir |-> None,
          selected_site |-> S_YouTube, config |-> NotObject]
    ELSE [binary_from_config |-> IF Falsy(cf.binary) THEN None ELSE cf.binary,
          sandbox_dir |-> IF Falsy(cf.sandbox_dir) THEN None ELSE cf.sandbox_dir,
          selected_site |-> IF Falsy(cf.selected_site) THEN S_YouTube
                            ELSE cf.selected_site,
          config |-> cf]

SavedConfig_NoSite(bfc, binary_text, sandbox, site) ==
    Doc(IF bfc # None THEN bfc
        ELSE IF Strip(binary_text) # << >> THEN Strip(binary_text)
        ELSE None,
        sandbox, None)

\* save_config's document.
SavedConfig(bfc, binary_text, sandbox, site) ==
    Doc(IF bfc # None THEN bfc
        ELSE IF Strip(binary_text) # << >> THEN Strip(binary_text)
        ELSE None,
        sandbox, site)

(***************************************************************************)
(* init_sandbox_dir                                                        *)
(***************************************************************************)
DefaultSandbox == Home \o <<"/", "V", "i", "d", "e", "o", "s", "/", "y", "t", "-", "d", "l", "p", "-", "g", "u", "i">>

\* os.makedirs(p, exist_ok=True) and os.chmod(p, 0o700) on a canonical path
\* succeed: what exists on the way is a directory, the directory the first
\* new one is made in is the user's, and so is p when it exists already.
MakeDirsOk(p) ==
    LET n  == Names(p)
        ex == {i \in 1..Len(n) : Exists(JoinAbs(SubSeq(n, 1, i)))}
    IN  /\ \A i \in ex : FS[JoinAbs(SubSeq(n, 1, i))].kind = "dir"
        /\ \/ Len(n) \in ex
           \/ ex # {} /\ FS[JoinAbs(SubSeq(n, 1, SetMax(ex)))].own

ChmodOk(p) == Exists(p) => FS[p].own

\* init_sandbox_dir on the sandbox_dir load_config left: ok is false where
\* the program ends with sys.exit(1); dir is the canonical sandbox path;
\* raised names the exception of os.path.expanduser on what is not a string.
InitSandboxDir(loaded) ==
    IF loaded \in {JsonNumber, JsonList}
    THEN [ok |-> TRUE, dir |-> loaded, raised |-> "TypeError"]
    ELSE LET raw     == IF loaded = None THEN DefaultSandbox ELSE loaded
             sb_real == Real(raw)
         IN  [ok  |-> ~IsLink(raw) /\ MakeDirsOk(sb_real) /\ ChmodOk(sb_real),
              dir |-> sb_real,
              raised |-> NoException]

(***************************************************************************)
(* The bounded inputs                                                      *)
(***************************************************************************)
U_youtube == <<"h", "t", "t", "p", "s", ":", "/", "/", "w", "w", "w", ".", "y", "o", "u", "t", "u", "b", "e", ".", "c", "o", "m", "/", "w">>

U_tiktok == <<" ", " ", "h", "t", "t", "p", "s", ":", "/", "/", "t", "i", "k", "t", "o", "k", ".", "c", "o", "m", "/", "v", " ">>

\* What the user types into the URL field.
Urls == {U_youtube, U_tiktok}

\* What the user types into the binary field.
BinaryTexts == {<<" ", "/", "u", "s", "r", "/", "b", "i", "n", "/", "y", "t", "-", "d", "l", "p", " ">>}

\* The entries of the site menu the user picks.
MenuSites == {S_YouTube, S_TikTok}

\* What the file dialog of choose_binary returns; empty when it is cancelled.
DialogFiles == {<< >>, P_ytdlp, P_ffmpeg}

S_Unknown == <<"V", "i", "m", "e", "o">>

\* The content of config.json when the program starts.
ConfigFiles ==
    { Absent,
      Doc(P_noexec, <<"/", "h", "o", "m", "e", "/", "u", "/", "V", "i", "d", "e", "o", "s", "/", ".", ".", "/", "V", "i", "d", "e", "o", "s", "/">>, S_TikTok),
      Doc(None, None, Unlisted),
      Doc(P_ytdlp, <<"/", "h", "o", "m", "e", "/", "u", "/", "d", "l">>, S_YouTube),
      Doc(P_linknamed, <<"~", "/", "d", "l", "/", "s", "u", "b">>, S_Unknown) }

\* What one readyRead finds on the child's standard output and standard error.
Chunk(out, err) == [out |-> out, err |-> err]

MainChunks ==
    { Chunk(<<"[", "d", "o", "w", "n", "l", "o", "a", "d", "]", " ", "D", "e", "s", "t", "i", "n", "a", "t", "i", "o", "n", ":", " ", "a", ".", "m", "p", "4", "\n">>, << >>),
      Chunk(<<"[", "d", "o", "w", "n", "l", "o", "a", "d", "]", " ", " ", "4", "2", ".", "0", "%", " ", "o", "f", " ", "1", "0", ".", "0", "0", "M", "i", "B", " ", "a", "t", " ", "1", ".", "5", "0", "M", "i", "B", "/", "s", "\n">>,
            <<"W", "A", "R", "N", "I", "N", "G", ":", " ", "s", "l", "o", "w", "\n">>),
      Chunk(<<"[", "d", "o", "w", "n", "l", "o", "a", "d", "]", " ", "a", ".", "m", "p", "4", " ", "h", "a", "s", " ", "a", "l", "r", "e", "a", "d", "y", " ", "b", "e", "e", "n", " ", "d", "o", "w", "n", "l", "o", "a", "d", "e", "d", "\n">>, << >>),
      Chunk(<<"[", "d", "o", "w", "n", "l", "o", "a", "d", "]", " ", "1", "5", "0", ".", "0", "%", " ", "o", "f", " ", "1", "0", ".", "0", "0", "M", "i", "B", "\n">>, << >>) }

\* The pieces the lines of the output interpreter's own specification are put
\* together from, and the most pieces a line has.
Pieces ==
    { <<"[", "d", "o", "w", "n", "l", "o", "a", "d", "]", " ">>, <<"4", "2", ".", "0", "%">>, <<"1", "5", "0", "%">>, <<"%">>, <<"i", "n", "f">>, <<"n", "a", "n">>, <<"d", "a", "t", "a">>,
      <<" ", "a", "t", " ">>, <<"1", ".", "5", "0", "M", "i", "B", "/", "s">>, <<" ">>, <<"D", "e", "s", "t", "i", "n", "a", "t", "i", "o", "n">>, AlreadyMark, <<"-", "3">> }

MaxPieces == 4

RECURSIVE Concat(_)
Concat(texts) ==
    IF texts = << >> THEN << >> ELSE Head(texts) \o Concat(Tail(texts))

Lines ==
    {Concat(t) : t \in UNION {[1..n -> Pieces] : n \in 1..MaxPieces}}
      \cup {<<"[", "d", "o", "w", "n", "l", "o", "a", "d", "]", " ", " ", "4", "2", ".", "0", "%", " ", "o", "f", " ", "1", "0", ".", "0", "0", "M", "i", "B", " ", "a", "t", " ", "1", ".", "5", "0", "M", "i", "B", "/", "s">>,
            <<"[", "d", "o", "w", "n", "l", "o", "a", "d", "]", " ", " ", "4", "2", ".", "0", "%", " ", "o", "f", " ", "d", "a", "t", "a", ".", "m", "p", "4", " ", "a", "t", " ", "1", ".", "5", "0", "M", "i", "B", "/", "s">>,
            <<"[", "d", "o", "w", "n", "l", "o", "a", "d", "]", " ", "f", "i", "l", "e", ".", "m", "p", "4", " ", "h", "a", "s", " ", "a", "l", "r", "e", "a", "d", "y", " ", "b", "e", "e", "n", " ", "d", "o", "w", "n", "l", "o", "a", "d", "e", "d">>}

\* The progress the window shows when a chunk of output arrives.
PriorStates ==
    { [progress |-> 0, status |-> StRetrieving, speed |-> NoSpeed],
      [progress |-> 42, status |-> StInProgress, speed |-> <<"1", ".", "5", "0", "M", "i", "B", "/", "s">>] }

\* The exit codes of a child that ends by itself.
ExitCodes == {0, 1}

(***************************************************************************)
(* The state                                                               *)
(***************************************************************************)
VARIABLES
    binary_from_config,  \* self.binary_from_config, None when not pinned
    sandbox_dir,         \* self.sandbox_dir
    binary_input,        \* the text of the binary field
    url_input,           \* the text of the URL field
    selected_site,       \* self.selected_site
    unlisted_checked,    \* the check mark of the Allow Unlisted menu entry
    progress,            \* the value of the progress bar
    status_label,        \* the text of status_label
    speed_label,         \* the text of speed_label after "Speed: "
    start_enabled,       \* the Download button is enabled
    cancel_enabled,      \* the Cancel button is enabled
    proc_state,          \* self.process.state()
    child,               \* the command line of the child process, if there is one
    proc_killed,         \* kill() was called on the child
    config_file,         \* the content of config.json
    dialog,              \* the message box the latest event raised
    read_text,           \* the text the latest handle_output read
    crashed,             \* an exception left a handler and ended the program
    to_write,            \* what the child has still to write: <<[err, text], ...>>
    emitted,             \* what the child wrote so far, in the order it wrote it
    stdout_buf,          \* the unread text of the child's standard output
    stderr_buf,          \* the unread text of the child's standard error
    target_path,         \* the argument of a call of ensure_inside_sandbox
    inside               \* what that call returned

fixed == <<binary_from_config, sandbox_dir>>

inputs == <<binary_input, url_input>>

policy == <<selected_site, unlisted_checked>>

view == <<progress, status_label, speed_label, start_enabled, cancel_enabled>>

proc == <<proc_state, child, proc_killed>>

\* The child's channels, which only the interpreter's own specification with
\* a stream follows byte by byte.
channels == <<to_write, emitted, stdout_buf, stderr_buf>>

\* The channels, and a call of ensure_inside_sandbox looked at by itself.
aside == <<channels, target_path, inside>>

vars == <<fixed, inputs, policy, view, proc, config_file, dialog, read_text,
          crashed, aside>>

\* The message boxes.
NoDialog == "none"

DlgInvalidBinary == "Error: Invalid yt-dlp binary."

DlgInvalidBinaryPath == "Error: Invalid yt-dlp binary path."

DlgInvalidUrl == "Error: Invalid or missing video URL."

DlgSiteMismatch == "Error: URL does not match selected site"

DlgBusy == "Warning: Another download is in progress."

DlgEscapes == "Sandbox Error: Resolved path escapes sandbox."

DlgDone == "Done: Download completed."

DlgAbout == "About"

DlgHelp == "Help"

\* No child process exists.
NoChild == [program |-> None, arguments |-> << >>]

\* How a child ends: QProcess.kill ends it with SIGKILL.
Killed == [status |-> "CrashExit", code |-> 9]

Exited(code) == [status |-> "NormalExit", code |-> code]

(***************************************************************************)
(* __init__: load_config, init_sandbox_dir, apply_site_config              *)
(***************************************************************************)
\* apply_site_config on the loaded document: the site and the check mark it
\* leaves, whether it went through set_site, which saves the config, and the
\* exception it raised: self.config.get on what is not an object, and the
\* test of a list against the keys of ALLOWED_SITES.
ApplySiteConfig(loaded) ==
    LET same == [selected_site |-> loaded.selected_site,
                 unlisted_checked |-> FALSE, saves |-> FALSE,
                 raised |-> NoException]
    IN  IF loaded.config = NotObject
        THEN [same EXCEPT !.raised = "AttributeError"]
        ELSE LET saved == loaded.config.selected_site
             IN  IF saved = Unlisted
                 THEN [same EXCEPT !.selected_site = Unlisted,
                                   !.unlisted_checked = TRUE]
                 ELSE IF saved = JsonList
                 THEN [same EXCEPT !.raised = "TypeError"]
                 ELSE IF saved \in DOMAIN ALLOWED_SITES
                 THEN [same EXCEPT !.selected_site = saved, !.saves = TRUE]
                 ELSE same

\* save_config writes the document, or fails (the error is logged) and leaves
\* the file as it was.
SaveConfig(bfc, binary_text, sandbox, site) ==
    \E written \in BOOLEAN :
      config_file' = IF written THEN SavedConfig(bfc, binary_text, sandbox, site)
                     ELSE config_file

\* No stream is followed and no call is looked at.
Unchecked == "unchecked"

NothingAside ==
    /\ to_write = << >>
    /\ emitted = << >>
    /\ stdout_buf = << >>
    /\ stderr_buf = << >>
    /\ target_path = None
    /\ inside = Unchecked

\* __init__ on the config file cf: what the program holds when the window is
\* up, or when an exception ended __init__ (crashed). There is no such state
\* where init_sandbox_dir ends the program with sys.exit(1).
StartupStates(cf) ==
    LET loaded  == LoadConfig(cf)
        sandbox == InitSandboxDir(loaded.sandbox_dir)
        site    == ApplySiteConfig(loaded)
    IN  IF sandbox.raised # NoException
        THEN {[binary_from_config |-> loaded.binary_from_config,
               sandbox_dir |-> sandbox.dir,
               selected_site |-> loaded.selected_site,
               unlisted_checked |-> FALSE,
               config_file |-> cf,
               crashed |-> TRUE]}
        ELSE IF ~sandbox.ok THEN {}
        ELSE {[binary_from_config |-> loaded.binary_from_config,
               sandbox_dir |-> sandbox.dir,
               selected_site |-> site.selected_site,
               unlisted_checked |-> site.unlisted_checked,
               config_file |->
                 IF site.saves /\ written
                 THEN SavedConfig(loaded.binary_from_config, << >>,
                                  sandbox.dir, site.selected_site)
                 ELSE cf,
               crashed |-> site.raised # NoException] : written \in BOOLEAN}

Init ==
    \E cf \in ConfigFiles :
      \E s \in StartupStates(cf) :
          /\ binary_from_config = s.binary_from_config
          /\ sandbox_dir = s.sandbox_dir
          /\ binary_input = << >>
          /\ url_input = << >>
          /\ selected_site = s.selected_site
          /\ unlisted_checked = s.unlisted_checked
          /\ progress = 0
          /\ status_label = StIdle
          /\ speed_label = NoSpeed
          /\ start_enabled = TRUE
          /\ cancel_enabled = FALSE
          /\ proc_state = "NotRunning"
          /\ child = NoChild
          /\ proc_killed = FALSE
          /\ config_file = s.config_file
          /\ dialog = NoDialog
          /\ read_text = << >>
          /\ crashed = s.crashed
          /\ NothingAside

(***************************************************************************)
(* The user's edits of the two text fields                                 *)
(***************************************************************************)
TypeUrl(u) ==
    /\ ~crashed
    /\ u # url_input
    /\ url_input' = u
    /\ dialog' = NoDialog
    /\ read_text' = << >>
    /\ UNCHANGED <<aside, fixed, binary_input, policy, view, proc,
                   config_file, crashed>>

\* The binary field is hidden when the config pins the binary.
TypeBinary(b) ==
    /\ ~crashed
    /\ binary_from_config = None
    /\ b # binary_input
    /\ binary_input' = b
    /\ dialog' = NoDialog
    /\ read_text' = << >>
    /\ UNCHANGED <<aside, fixed, url_input, policy, view, proc, config_file,
                   crashed>>

(***************************************************************************)
(* The site menu                                                           *)
(***************************************************************************)
SetSite(site) ==
    /\ ~crashed
    /\ selected_site' = site
    /\ unlisted_checked' = FALSE
    /\ SaveConfig(binary_from_config, binary_input, sandbox_dir, site)
    /\ dialog' = NoDialog
    /\ read_text' = << >>
    /\ UNCHANGED <<aside, fixed, inputs, view, proc, crashed>>

\* A click on the entry flips its check mark and passes the new one.
ToggleUnlisted ==
    LET checked == ~unlisted_checked
    IN  /\ ~crashed
        /\ IF checked
           THEN /\ selected_site' = Unlisted
                /\ unlisted_checked' = TRUE
                /\ UNCHANGED config_file
           ELSE /\ selected_site' = S_YouTube
                /\ unlisted_checked' = FALSE
                /\ SaveConfig(binary_from_config, binary_input, sandbox_dir,
                              S_YouTube)
        /\ dialog' = NoDialog
        /\ read_text' = << >>
        /\ UNCHANGED <<aside, fixed, inputs, view, proc, crashed>>

(***************************************************************************)
(* choose_binary                                                           *)
(***************************************************************************)
ChooseBinary(file) ==
    /\ ~crashed
    /\ binary_from_config = None
    /\ IF file # << >> /\ ValidateBinary(file)
       THEN /\ binary_input' = file
            /\ SaveConfig(binary_from_config, file, sandbox_dir, selected_site)
            /\ dialog' = NoDialog
       ELSE /\ dialog' = IF file # << >> THEN DlgInvalidBinary ELSE NoDialog
            /\ UNCHANGED <<binary_input, config_file>>
    /\ read_text' = << >>
    /\ UNCHANGED <<aside, fixed, url_input, policy, view, proc, crashed>>

(***************************************************************************)
(* start_download                                                          *)
(***************************************************************************)
SafeTemplate == <<"%", "(", "t", "i", "t", "l", "e", ")", ".", "2", "0", "0", "B", ".", "%", "(", "e", "x", "t", ")", "s">>

Arguments_Unrestricted(sandbox, url) ==
    <<<<"-", "o">>, SafeTemplate, <<"-", "P">>, sandbox, url>>

\* The argument list of the child.
Arguments(sandbox, url) ==
    <<<<"-", "-", "r", "e", "s", "t", "r", "i", "c", "t", "-", "f", "i", "l", "e", "n", "a", "m", "e", "s">>, <<"-", "o">>, SafeTemplate, <<"-", "P">>, sandbox, url>>

\* self.binary_from_config or self.binary_input.text().strip()
Binary == IF binary_from_config # None THEN binary_from_config
          ELSE Strip(binary_input)

\* QProcess.start: a QProcess that is not NotRunning refuses with a warning.
ProcessStart(program, arguments) ==
    IF proc_state = "NotRunning"
    THEN /\ proc_state' = "Starting"
         /\ child' = [program |-> program, arguments |-> arguments]
         /\ proc_killed' = FALSE
    ELSE UNCHANGED proc

\* start_download from its first change of the window on.
Launch(binary, url) ==
    /\ progress' = 0
    /\ status_label' = StRetrieving
    /\ speed_label' = NoSpeed
    /\ SaveConfig(binary_from_config, binary_input, sandbox_dir, selected_site)
    /\ IF ~EnsureInsideSandbox(sandbox_dir, sandbox_dir)
       THEN /\ dialog' = DlgEscapes
            /\ start_enabled' = TRUE
            /\ cancel_enabled' = FALSE
            /\ UNCHANGED proc
       ELSE /\ dialog' = NoDialog
            /\ start_enabled' = FALSE
            /\ cancel_enabled' = TRUE
            /\ ProcessStart(binary, Arguments(sandbox_dir, url))

Reject_AfterReset(message) ==
    /\ dialog' = message
    /\ progress' = 0
    /\ status_label' = StRetrieving
    /\ speed_label' = NoSpeed
    /\ UNCHANGED <<start_enabled, cancel_enabled, proc, config_file>>

Reject_SavingConfig(message) ==
    /\ dialog' = message
    /\ SaveConfig(binary_from_config, binary_input, sandbox_dir, selected_site)
    /\ UNCHANGED <<view, proc>>

\* The request is turned down with a message box and nothing else.
Reject(message) ==
    /\ dialog' = message
    /\ UNCHANGED <<view, proc, config_file>>

StartDownload ==
    LET binary == Binary
        url    == Strip(url_input)
    IN  /\ ~crashed
        /\ start_enabled
        /\ IF ~ValidateBinary(binary) THEN Reject(DlgInvalidBinaryPath)
           ELSE IF selected_site = Unlisted /\ ~UrlRegexMatch(url)
                THEN Reject(DlgInvalidUrl)
           ELSE IF selected_site # Unlisted
                   /\ ~\E p \in ValidPatterns(selected_site) : ReMatch(p, url)
                THEN Reject(DlgSiteMismatch)
           ELSE IF proc_state # "NotRunning" THEN Reject(DlgBusy)
           ELSE Launch(binary, url)
        /\ read_text' = << >>
        /\ UNCHANGED <<aside, fixed, inputs, policy, crashed>>

(***************************************************************************)
(* The child process                                                       *)
(***************************************************************************)
\* The child runs.
ProcStarted ==
    /\ ~crashed
    /\ proc_state = "Starting"
    /\ proc_state' = "Running"
    /\ dialog' = NoDialog
    /\ read_text' = << >>
    /\ UNCHANGED <<aside, fixed, inputs, policy, view, child, proc_killed,
                   config_file, crashed>>

\* The program could not be executed: QProcess goes back to NotRunning and
\* raises errorOccurred, which no slot is connected to; finished is not raised.
ProcFailedToStart ==
    /\ ~crashed
    /\ proc_state = "Starting"
    /\ proc_state' = "NotRunning"
    /\ child' = NoChild
    /\ dialog' = NoDialog
    /\ read_text' = << >>
    /\ UNCHANGED <<aside, fixed, inputs, policy, view, proc_killed,
                   config_file, crashed>>

\* handle_output, on readyReadStandardOutput or readyReadStandardError.
HandleOutput(out, err) ==
    /\ ~crashed
    /\ proc_state = "Running"
    /\ out \o err # << >>
    /\ \E ps \in {HandleText([progress |-> progress, status |-> status_label,
                              speed |-> speed_label, raised |-> NoException],
                             out, err)} :
         /\ progress' = ps.progress
         /\ status_label' = ps.status
         /\ speed_label' = ps.speed
         /\ crashed' = (ps.raised # NoException)
    /\ read_text' = out \o err
    /\ dialog' = NoDialog
    /\ UNCHANGED <<fixed, inputs, policy, start_enabled, cancel_enabled,
                   proc, config_file>>

DownloadFinished_ByExitCode(exit) ==
    /\ ~crashed
    /\ proc_state = "Running"
    /\ proc_state' = "NotRunning"
    /\ child' = NoChild
    /\ progress' = IF exit.code = 0 THEN SetValue(progress, 100) ELSE progress
    /\ status_label' = IF exit.code = 0 THEN StComplete ELSE "Status: Failed"
    /\ speed_label' = NoSpeed
    /\ start_enabled' = TRUE
    /\ cancel_enabled' = FALSE
    /\ dialog' = DlgDone
    /\ read_text' = << >>
    /\ UNCHANGED <<aside, fixed, inputs, policy, proc_killed, config_file,
                   crashed>>

\* download_finished, on the finished signal of the child; the slot is not
\* passed how the child ended.
DownloadFinished(exit) ==
    /\ ~crashed
    /\ proc_state = "Running"
    /\ proc_state' = "NotRunning"
    /\ child' = NoChild
    /\ progress' = SetValue(progress, 100)
    /\ status_label' = StComplete
    /\ speed_label' = NoSpeed
    /\ start_enabled' = TRUE
    /\ cancel_enabled' = FALSE
    /\ dialog' = DlgDone
    /\ read_text' = << >>
    /\ UNCHANGED <<aside, fixed, inputs, policy, proc_killed, config_file,
                   crashed>>

\* The child ends: killed, or by itself with some exit code.
ProcExit ==
    IF proc_killed THEN DownloadFinished(Killed)
    ELSE \E code \in ExitCodes : DownloadFinished(Exited(code))

(***************************************************************************)
(* cancel_download and reset_ui                                            *)
(***************************************************************************)
CancelDownload_Unguarded ==
    /\ ~crashed
    /\ cancel_enabled
    /\ proc_killed' = (proc_state # "NotRunning")
    /\ status_label' = StCancelled
    /\ speed_label' = NoSpeed
    /\ progress' = SetValue(progress, 0)
    /\ start_enabled' = TRUE
    /\ cancel_enabled' = FALSE
    /\ dialog' = NoDialog
    /\ read_text' = << >>
    /\ UNCHANGED <<aside, fixed, inputs, policy, proc_state, child,
                   config_file, crashed>>

CancelDownload ==
    /\ ~crashed
    /\ cancel_enabled
    /\ IF proc_state # "NotRunning"
       THEN /\ proc_killed' = TRUE
            /\ status_label' = StCancelled
            /\ speed_label' = NoSpeed
            /\ progress' = SetValue(progress, 0)
            /\ start_enabled' = TRUE
            /\ cancel_enabled' = FALSE
       ELSE UNCHANGED <<view, proc_killed>>
    /\ dialog' = NoDialog
    /\ read_text' = << >>
    /\ UNCHANGED <<aside, fixed, inputs, policy, proc_state, child,
                   config_file, crashed>>

ResetUi ==
    /\ ~crashed
    /\ url_input' = << >>
    /\ binary_input' = IF binary_from_config = None THEN << >> ELSE binary_input
    /\ progress' = SetValue(progress, 0)
    /\ status_label' = StIdle
    /\ speed_label' = NoSpeed
    /\ start_enabled' = TRUE
    /\ cancel_enabled' = FALSE
    /\ dialog' = NoDialog
    /\ read_text' = << >>
    /\ UNCHANGED <<aside, fixed, policy, proc, config_file, crashed>>

(***************************************************************************)
(* show_about and show_help                                                *)
(***************************************************************************)
ShowAbout ==
    /\ ~crashed
    /\ dialog' = DlgAbout
    /\ read_text' = << >>
    /\ UNCHANGED <<aside, fixed, inputs, policy, view, proc, config_file,
                   crashed>>

ShowHelp ==
    /\ ~crashed
    /\ dialog' = DlgHelp
    /\ read_text' = << >>
    /\ UNCHANGED <<aside, fixed, inputs, policy, view, proc, config_file,
                   crashed>>

(***************************************************************************)
(* The program                                                             *)
(***************************************************************************)
Next ==
    \/ \E u \in Urls \cup {<< >>} : TypeUrl(u)
    \/ \E b \in BinaryTexts \cup {<< >>} : TypeBinary(b)
    \/ \E site \in MenuSites : SetSite(site)
    \/ ToggleUnlisted
    \/ \E file \in DialogFiles : ChooseBinary(file)
    \/ StartDownload
    \/ ProcStarted
    \/ ProcFailedToStart
    \/ \E c \in MainChunks : HandleOutput(c.out, c.err) /\ UNCHANGED aside
    \/ ProcExit
    \/ CancelDownload
    \/ ResetUi
    \/ ShowAbout
    \/ ShowHelp

Spec == Init /\ [][Next]_vars

(***************************************************************************)
(* The output interpreter by itself: a download is running, the window     *)
(* shows one of PriorStates, and one chunk of output, a line put together  *)
(* from Pieces, arrives.                                                   *)
(***************************************************************************)
InitOut ==
    \E ps \in PriorStates :
      /\ binary_from_config = None
      /\ sandbox_dir = DefaultSandbox
      /\ binary_input = P_ytdlp
      /\ url_input = U_youtube
      /\ selected_site = S_YouTube
      /\ unlisted_checked = FALSE
      /\ progress = ps.progress
      /\ status_label = ps.status
      /\ speed_label = ps.speed
      /\ start_enabled = FALSE
      /\ cancel_enabled = TRUE
      /\ proc_state = "Running"
      /\ child = [program |-> P_ytdlp,
                  arguments |-> Arguments(DefaultSandbox, U_youtube)]
      /\ proc_killed = FALSE
      /\ config_file = SavedConfig(None, P_ytdlp, DefaultSandbox, S_YouTube)
      /\ dialog = NoDialog
      /\ read_text = << >>
      /\ crashed = FALSE
      /\ NothingAside

NextOut ==
    /\ read_text = << >>
    /\ \E line \in Lines : HandleOutput(line, << >>)
    /\ UNCHANGED aside

SpecOut == InitOut /\ [][NextOut]_vars


(***************************************************************************)
(* The output interpreter on a stream: a download has just started, the    *)
(* child writes one of Streams piece by piece, and every readyRead signal  *)
(* runs handle_output on what the two channels hold by then.               *)
(***************************************************************************)
Item(err, text) == [err |-> err, text |-> text]

\* What a child writes, in the order it writes it.
Streams ==
    { <<Item(FALSE, <<"[", "d", "o", "w", "n", "l", "o", "a", "d", "]", " ", "D", "e", "s", "t", "i", "n", "a", "t", "i", "o", "n", ":", " ", "a", ".", "m", "p", "4", "\n">>),
        Item(FALSE, <<"[", "d", "o", "w", "n", "l", "o", "a", "d", "]", " ", " ", "4", "2", ".", "0", "%", " ", "o", "f", " ", "1", "0", ".", "0", "0", "M", "i", "B", " ", "a", "t", " ", "1", ".", "5", "0", "M", "i", "B", "/", "s", "\n">>)>>,
      <<Item(TRUE, <<"W", "A", "R", "N", "I", "N", "G", ":", " ", "s", "l", "o", "w", "\n">>),
        Item(FALSE, <<"[", "d", "o", "w", "n", "l", "o", "a", "d", "]", " ", " ", " ", "7", ".", "5", "%", " ", "a", "t", " ", "9", "K", "i", "B", "/", "s", "\n">>)>> }

\* The window as start_download leaves it.
Started == [progress |-> 0, status |-> StRetrieving, speed |-> NoSpeed]

InitStream ==
    /\ binary_from_config = None
    /\ sandbox_dir = DefaultSandbox
    /\ binary_input = P_ytdlp
    /\ url_input = U_youtube
    /\ selected_site = S_YouTube
    /\ unlisted_checked = FALSE
    /\ progress = Started.progress
    /\ status_label = Started.status
    /\ speed_label = Started.speed
    /\ start_enabled = FALSE
    /\ cancel_enabled = TRUE
    /\ proc_state = "Running"
    /\ child = [program |-> P_ytdlp,
                arguments |-> Arguments(DefaultSandbox, U_youtube)]
    /\ proc_killed = FALSE
    /\ config_file = SavedConfig(None, P_ytdlp, DefaultSandbox, S_YouTube)
    /\ dialog = NoDialog
    /\ read_text = << >>
    /\ crashed = FALSE
    /\ to_write \in Streams
    /\ emitted = << >>
    /\ stdout_buf = << >>
    /\ stderr_buf = << >>
    /\ target_path = None
    /\ inside = Unchecked

\* The first n characters of what the child writes next reach their channel.
ChildWrites(n) ==
    LET item == Head(to_write)
        sent == SubSeq(item.text, 1, n)
        rest == SubSeq(item.text, n + 1, Len(item.text))
    IN  /\ ~crashed
        /\ proc_state = "Running"
        /\ to_write # << >>
        /\ n \in 1..Len(item.text)
        /\ stdout_buf' = IF item.err THEN stdout_buf ELSE stdout_buf \o sent
        /\ stderr_buf' = IF item.err THEN stderr_buf \o sent ELSE stderr_buf
        /\ emitted' = emitted \o sent
        /\ to_write' = IF rest = << >> THEN Tail(to_write)
                       ELSE <<Item(item.err, rest)>> \o Tail(to_write)
        /\ UNCHANGED <<fixed, inputs, policy, view, proc, config_file, dialog,
                       read_text, crashed, target_path, inside>>

\* readyReadStandardOutput or readyReadStandardError: handle_output reads all
\* that the two channels hold.
ReadyRead ==
    /\ HandleOutput(stdout_buf, stderr_buf)
    /\ stdout_buf' = << >>
    /\ stderr_buf' = << >>
    /\ UNCHANGED <<to_write, emitted, target_path, inside>>

\* The most characters that reach a channel at once.
MaxWrite == 43

NextStream ==
    \/ \E n \in 1..MaxWrite : ChildWrites(n)
    \/ ReadyRead

SpecStream == InitStream /\ [][NextStream]_vars

(***************************************************************************)
(* The config file over the runs of the program: the program starts on any *)
(* of StartupFiles, the user edits the binary and the site, closes the     *)
(* window and runs the program again on the config file it left.           *)
(***************************************************************************)
\* The content of config.json at the first start, well-formed or not.
StartupFiles ==
    ConfigFiles \cup
      { Unreadable, NotJson, NotObject,
        Doc(None, JsonNumber, S_YouTube),
        Doc(None, None, JsonList),
        Doc(None, None, JsonNumber) }

\* What the user types into the binary field, a valid binary or not.
TypedBinaries == BinaryTexts \cup {P_ffmpeg}

InitConfig ==
    \E cf \in StartupFiles :
      \E s \in StartupStates(cf) :
          /\ binary_from_config = s.binary_from_config
          /\ sandbox_dir = s.sandbox_dir
          /\ binary_input = << >>
          /\ url_input = << >>
          /\ selected_site = s.selected_site
          /\ unlisted_checked = s.unlisted_checked
          /\ progress = 0
          /\ status_label = StIdle
          /\ speed_label = NoSpeed
          /\ start_enabled = TRUE
          /\ cancel_enabled = FALSE
          /\ proc_state = "NotRunning"
          /\ child = NoChild
          /\ proc_killed = FALSE
          /\ config_file = s.config_file
          /\ dialog = NoDialog
          /\ read_text = << >>
          /\ crashed = s.crashed
          /\ NothingAside

\* The window is closed, or the program has ended, and the program is run
\* again: __init__ on the config file as it is.
Restart ==
    /\ proc_state = "NotRunning"
    /\ \E s \in StartupStates(config_file) :
          /\ binary_from_config' = s.binary_from_config
          /\ sandbox_dir' = s.sandbox_dir
          /\ selected_site' = s.selected_site
          /\ unlisted_checked' = s.unlisted_checked
          /\ config_file' = s.config_file
          /\ crashed' = s.crashed
    /\ binary_input' = << >>
    /\ url_input' = << >>
    /\ progress' = 0
    /\ status_label' = StIdle
    /\ speed_label' = NoSpeed
    /\ start_enabled' = TRUE
    /\ cancel_enabled' = FALSE
    /\ dialog' = NoDialog
    /\ read_text' = << >>
    /\ UNCHANGED <<proc, aside>>

NextConfig ==
    \/ \E b \in TypedBinaries \cup {<< >>} : TypeBinary(b)
    \/ \E site \in MenuSites : SetSite(site)
    \/ ToggleUnlisted
    \/ \E file \in DialogFiles : ChooseBinary(file)
    \/ Restart

SpecConfig == InitConfig /\ [][NextConfig]_vars

(***************************************************************************)
(* ensure_inside_sandbox by itself: the sandbox directory is one of Roots, *)
(* and the function is called once on one of Targets.                      *)
(***************************************************************************)
R_Videos == <<"/", "h", "o", "m", "e", "/", "u", "/", "V", "i", "d", "e", "o", "s">>

R_Home == <<"/", "h", "o", "m", "e", "/", "u">>

Roots ==
    { R_Videos, R_Home, <<"/", "h", "o", "m", "e", "/", "u", "/", "d", "l">>, <<"~", "/", "V", "i", "d", "e", "o", "s", "/">>, <<"/", "m", "n", "t", "/", "m", "e", "d", "i", "a">>, <<"/">> }

T_DotDot == <<"/", "h", "o", "m", "e", "/", "u", "/", "V", "i", "d", "e", "o", "s", "/", ".", ".", "/", "e", "s", "c", "a", "p", "e">>

T_Sibling == <<"/", "h", "o", "m", "e", "/", "u", "/", "V", "i", "d", "e", "o", "s", "2", "/", "x">>

T_Unrelated == <<"/", "e", "t", "c", "/", "p", "a", "s", "s", "w", "d">>

T_ThroughLink == <<"/", "h", "o", "m", "e", "/", "u", "/", "d", "l", "/", "x">>

Targets ==
    { T_DotDot, T_Sibling, T_Unrelated, T_ThroughLink,
      <<"/", "h", "o", "m", "e", "/", "u">>, <<"/", "h", "o", "m", "e", "/", "u", "/", "V", "i", "d", "e", "o", "s">>, <<"/", "h", "o", "m", "e", "/", "u", "/", "V", "i", "d", "e", "o", "s", "/", "a", ".", "m", "p", "4">>,
      <<"/", "h", "o", "m", "e", "/", "u", "s", "e", "r">>, <<"/", "h", "o", "m", "e", "/", "u", "/", "u", "p", "/", "u", "/", "V", "i", "d", "e", "o", "s", "/", "b">>, <<"/", "m", "n", "t", "/", "m", "e", "d", "i", "a", "/", "a">>,
      <<"V", "i", "d", "e", "o", "s">>, <<".", ".", "/", "V", "i", "d", "e", "o", "s", "/", "c">>, <<"~", "/", "V", "i", "d", "e", "o", "s">>, <<"/">> }

Inside == "inside"

Escapes == "escapes"

InitPath ==
    /\ binary_from_config = None
    /\ sandbox_dir \in Roots
    /\ binary_input = << >>
    /\ url_input = << >>
    /\ selected_site = S_YouTube
    /\ unlisted_checked = FALSE
    /\ progress = 0
    /\ status_label = StIdle
    /\ speed_label = NoSpeed
    /\ start_enabled = TRUE
    /\ cancel_enabled = FALSE
    /\ proc_state = "NotRunning"
    /\ child = NoChild
    /\ proc_killed = FALSE
    /\ config_file = Absent
    /\ dialog = NoDialog
    /\ read_text = << >>
    /\ crashed = FALSE
    /\ to_write = << >>
    /\ emitted = << >>
    /\ stdout_buf = << >>
    /\ stderr_buf = << >>
    /\ target_path \in Targets
    /\ inside = Unchecked

\* The call ensure_inside_sandbox(target_path).
CheckTarget ==
    /\ inside = Unchecked
    /\ inside' = IF EnsureInsideSandbox(sandbox_dir, target_path)
                 THEN Inside ELSE Escapes
    /\ UNCHANGED <<fixed, inputs, policy, view, proc, config_file, dialog,
                   read_text, crashed, channels, target_path>>

SpecPath == InitPath /\ [][CheckTarget]_vars
(***************************************************************************)
(* Properties                                                              *)
(***************************************************************************)
\* A step that spawns a child process.
Spawns == proc_state = "NotRunning" /\ proc_state' = "Starting"

\* The URL test the active site policy asks for.
UrlAccepted(site, url) ==
    IF site = Unlisted THEN UrlRegexMatch(url)
    ELSE /\ site \in DOMAIN ALLOWED_SITES
         /\ \E p \in ALLOWED_SITES[site] : ReMatch(p, url)

\* What validate_binary is to establish of a path.
BinaryIsValid(path) ==
    /\ IsFile(path)
    /\ OwnerExec(path)
    /\ StartsWith(Basename(path), BinaryPrefix)

\* The messages start_download turns a request down with.
InvalidMessages ==
    {DlgInvalidBinaryPath, DlgInvalidUrl, DlgSiteMismatch, DlgEscapes}

\* C1: a step spawns a child only from a state in which the binary it runs (the
\* pinned one, else the stripped text of the binary field) is a regular file with
\* the owner-execute bit and a name that starts with yt-dlp, and in which the
\* stripped URL is accepted by the selected site (the generic pattern under
\* Allow Unlisted, a pattern of the site otherwise, none for an unknown site).
C1_SpawnOnlyValidated ==
    [][Spawns =>
         /\ child'.program = Binary
         /\ BinaryIsValid(Binary)
         /\ UrlAccepted(selected_site, Strip(url_input))]_vars

\* A child was spawned under the TikTok policy from a padded URL.
C1_Witness ==
    /\ proc_state = "Starting"
    /\ selected_site = S_TikTok
    /\ child.arguments[6] = Strip(U_tiktok)
    /\ url_input = U_tiktok

\* C2: the sandbox directory is canonical and no step changes it, and a step
\* that spawns a child gives it exactly --restrict-filenames, -o, the template,
\* -P, the sandbox directory and the stripped URL that was checked; the command
\* line of a child does not change while it exists.
C2_FixedArguments ==
    [][/\ sandbox_dir' = sandbox_dir
       /\ Real(sandbox_dir) = sandbox_dir
       /\ Spawns =>
            child'.arguments =
              <<<<"-", "-", "r", "e", "s", "t", "r", "i", "c", "t", "-", "f", "i", "l", "e", "n", "a", "m", "e", "s">>, <<"-", "o">>, <<"%", "(", "t", "i", "t", "l", "e", ")", ".", "2", "0", "0", "B", ".", "%", "(", "e", "x", "t", ")", "s">>,
                <<"-", "P">>, sandbox_dir, Strip(url_input)>>
       /\ (~Spawns /\ proc_state' # "NotRunning") => child' = child]_vars

\* A child runs with the sandbox that startup resolved from ~/dl/sub.
C2_Witness ==
    /\ proc_state = "Running"
    /\ sandbox_dir = <<"/", "m", "n", "t", "/", "m", "e", "d", "i", "a", "/", "s", "u", "b">>
    /\ child.arguments[5] = <<"/", "m", "n", "t", "/", "m", "e", "d", "i", "a", "/", "s", "u", "b">>

C4_RejectionLeavesState ==
    [][(StartDownload /\ dialog' \in InvalidMessages) =>
         UNCHANGED <<view, proc, config_file>>]_vars

\* A request was turned down for its URL after a download had completed, and
\* the window still shows the completed download.
C4_Witness ==
    /\ dialog = DlgSiteMismatch
    /\ status_label = StComplete
    /\ progress = 100
    /\ proc_state = "NotRunning"

\* C5: when the child fails to start, the status does not stay at Retrieving
\* and the buttons go back to Download enabled, Cancel disabled.
C5_SpawnFailureSurfaces ==
    [][(proc_state = "Starting" /\ proc_state' = "NotRunning") =>
         /\ status_label' # StRetrieving
         /\ start_enabled'
         /\ ~cancel_enabled']_vars

\* C6: cancel_download kills a child that exists and shows Cancelled, progress
\* 0, no speed, Download enabled and Cancel disabled; without a child it
\* changes nothing.
C6_Cancel ==
    [][CancelDownload =>
         IF proc_state # "NotRunning"
         THEN /\ proc_killed'
              /\ proc_state' = proc_state
              /\ status_label' = StCancelled
              /\ progress' = 0
              /\ speed_label' = NoSpeed
              /\ start_enabled'
              /\ ~cancel_enabled'
         ELSE UNCHANGED <<fixed, inputs, policy, view, proc, config_file,
                          crashed, aside>>]_vars

\* A running download that had shown progress was cancelled.
C6_Witness ==
    /\ proc_killed
    /\ proc_state = "Running"
    /\ status_label = StCancelled
    /\ progress = 0
    /\ ~cancel_enabled

\* C7: once the status is Cancelled, it stays Cancelled, and the progress with
\* it, until the next start_download or reset_ui.
C7_CancelledIsTerminal ==
    [][status_label = StCancelled =>
         \/ status_label' = StCancelled /\ progress' = progress
         \/ StartDownload
         \/ ResetUi]_vars

\* C8: every end of the child, whatever its exit code, shows Complete, progress
\* 100, no speed, Download enabled and Cancel disabled, with the process
\* NotRunning, so that the next start_download is not turned down as running.
C8_ExitCompletes ==
    [][(proc_state = "Running" /\ proc_state' = "NotRunning") =>
         /\ status_label' = StComplete
         /\ progress' = 100
         /\ speed_label' = NoSpeed
         /\ start_enabled'
         /\ ~cancel_enabled'
         /\ child' = NoChild]_vars

\* A download ended and a second one was started after it.
C8_Witness ==
    /\ proc_state = "NotRunning"
    /\ status_label = StComplete
    /\ dialog = DlgDone
    /\ progress = 100
    /\ start_enabled

\* The line a chunk of one line holds.
OneLine(text) == SplitLines(StripAnsi(text)) = <<StripAnsi(text)>>

\* C9: a line of output that holds the already-downloaded marker shows the
\* already-downloaded status, progress 100 and no speed.
C9_AlreadyDownloaded ==
    [][(OneLine(read_text') /\ Contains(read_text', AlreadyMark)) =>
         /\ status_label' = StAlready
         /\ progress' = 100
         /\ speed_label' = NoSpeed]_vars

\* The whitespace-delimited token with the value v, if the line has one.
HasToken(line, v) == \E i \in 1..Len(Split(line)) : Split(line)[i] = v

\* The tokens after the first token at.
AfterAtToken(line) ==
    LET toks == Split(line)
        i    == SetMin({j \in 1..Len(toks) : toks[j] = AtMark})
    IN  SubSeq(toks, i + 1, Len(toks))

\* C10, on the lines that hold the download tag, no Destination and a number
\* in 0..100 before the percent sign: the status is In progress, the progress
\* the integer part of the number and, when the line has the token at and a
\* token after it, the speed is that token.
C10_ProgressLine ==
    [][/\ OneLine(read_text')
       /\ Contains(read_text', DownloadTag)
       /\ ~Contains(read_text', DestinationMark)
       /\ Contains(read_text', PercentMark)
       /\ Split(Before(read_text', PercentMark)) # << >>
       /\ ParseFloat(Last(Split(Before(read_text', PercentMark)))).kind = "num"
       /\ ParseFloat(Last(Split(Before(read_text', PercentMark)))).trunc \in 0..100
       =>
       /\ status_label' = StInProgress
       /\ progress' = ParseFloat(Last(Split(Before(read_text', PercentMark)))).trunc
       /\ (HasToken(read_text', AtMark) /\ AfterAtToken(read_text') # << >>)
            => speed_label' = AfterAtToken(read_text')[1]]_vars

\* The line goes through the percent branch of handle_output.
PercentLine(line) ==
    /\ Contains(line, DownloadTag)
    /\ ~Contains(line, DestinationMark)
    /\ Contains(line, PercentMark)

\* The token before the percent sign is missing or is not a finite number.
MalformedPercent(line) ==
    LET toks == Split(Before(line, PercentMark))
    IN  IF toks = << >> THEN TRUE ELSE ParseFloat(Last(toks)).kind # "num"

\* C11, its first part: a line of the percent branch whose percent token is
\* missing, not a number or not finite raises nothing out of handle_output.
C11_NeverRaises ==
    [][(/\ OneLine(read_text')
        /\ PercentLine(read_text')
        /\ MalformedPercent(read_text'))
       => ~crashed']_vars

\* The whole stream was written and read.
StreamConsumed ==
    /\ to_write = << >>
    /\ emitted # << >>
    /\ stdout_buf = << >>
    /\ stderr_buf = << >>

\* C12: when the whole stream is consumed, progress, status and speed are what
\* the lines of the stream give when they are applied whole and in the order
\* the child wrote them, however the stream was cut into chunks.
C12_ChunkingIndependent ==
    (StreamConsumed /\ ~crashed) =>
        LET whole == HandleText([progress |-> Started.progress,
                                 status |-> Started.status,
                                 speed |-> Started.speed,
                                 raised |-> NoException], emitted, << >>)
        IN  /\ progress = whole.progress
            /\ status_label = whole.status
            /\ speed_label = whole.speed

\* C13: the progress is an integer from 0 to 100 in every state.
C13_ProgressInRange == progress \in 0..100

\* A line with 150.0% was read during a download that had reached 42.
C13_Witness ==
    /\ read_text = <<"[", "d", "o", "w", "n", "l", "o", "a", "d", "]", " ", "1", "5", "0", ".", "0", "%", " ", "o", "f", " ", "1", "0", ".", "0", "0", "M", "i", "B", "\n">>
    /\ status_label = StInProgress
    /\ progress = 42

\* The selected site the config file holds, None when it holds none.
StoredSite(cf) == IF cf = Absent THEN None ELSE cf.selected_site

\* C14, for the action that turns Allow Unlisted on: when it is done, the
\* selected site in the config file is the active one.
C14_SelectionPersists ==
    [][(ToggleUnlisted /\ selected_site' = Unlisted)
         => StoredSite(config_file') = selected_site']_vars

\* C15: the selected site is a name of ALLOWED_SITES or Allow Unlisted in
\* every state.
C15_KnownPolicy == selected_site \in DOMAIN ALLOWED_SITES \cup {Unlisted}

\* C16, its first part: no startup, whatever config.json holds, ends with an
\* unhandled error.
C16_StartupRecovers == ~crashed

\* The binary the config file holds, None when it holds none.
StoredBinary(cf) ==
    IF cf \in {Absent, Unreadable, NotJson, NotObject} THEN None ELSE cf.binary

\* C17: a step that puts a new binary into the config file puts one there
\* that validate_binary accepts.
C17_OnlyValidatedBinarySaved ==
    [][(/\ StoredBinary(config_file') # StoredBinary(config_file)
        /\ StoredBinary(config_file') # None)
         => ValidateBinary(StoredBinary(config_file'))]_vars

\* C18: when the config file is what save_config writes in the present state
\* and the selected site is a named site or Allow Unlisted, a fresh start of
\* the program comes up with the same selected site, and with the check mark
\* of Allow Unlisted set exactly when that is the site.
C18_PolicyRoundTrip ==
    [][(/\ Restart
        /\ selected_site \in DOMAIN ALLOWED_SITES \cup {Unlisted}
        /\ config_file = SavedConfig(binary_from_config, binary_input,
                                     sandbox_dir, selected_site))
       =>
       /\ ~crashed'
       /\ selected_site' = selected_site
       /\ unlisted_checked' = (selected_site = Unlisted)]_vars

\* The program was started again on a config file that a choice of binary
\* under Allow Unlisted had written.
C18_Witness ==
    /\ selected_site = Unlisted
    /\ unlisted_checked
    /\ binary_from_config = P_ytdlp
    /\ config_file = Doc(P_ytdlp, DefaultSandbox, Unlisted)
    /\ ~crashed

\* The canonical path t is the canonical path r or lies below it: the names of
\* r are the first names of t.
IsWithin(r, t) ==
    LET rn == Names(Real(r))
        tn == Names(Real(t))
    IN  /\ Len(rn) <= Len(tn)
        /\ \A i \in 1..Len(rn) : tn[i] = rn[i]

\* C19: ensure_inside_sandbox answers true exactly when the canonical target is
\* the canonical sandbox directory or lies below it; it answers false for
\* R/../escape, for a sibling whose name starts with the name of R, for an
\* unrelated absolute path, and for a path that leaves R through a link.
C19_Containment ==
    inside # Unchecked =>
        /\ (inside = Inside) <=> IsWithin(sandbox_dir, target_path)
        /\ (/\ sandbox_dir = R_Videos
            /\ target_path \in {T_DotDot, T_Sibling, T_Unrelated})
             => inside = Escapes
        /\ (sandbox_dir = R_Home /\ target_path = T_ThroughLink)
             => inside = Escapes

\* The call was made on a sibling of the sandbox whose name starts with the
\* name of the sandbox.
C19_Witness ==
    /\ sandbox_dir = R_Videos
    /\ target_path = T_Sibling
    /\ inside = Escapes

\* C20, its first part: in every state that shows Idle, with Download enabled,
\* Cancel disabled and progress 0, no child process exists.
C20_IdleMeansNoChild ==
    (/\ status_label = StIdle
     /\ start_enabled
     /\ ~cancel_enabled
     /\ progress = 0)
      => proc_state = "NotRunning"

=============================================================================
